---- MODULE Spec2Model ----
(***************************************************************************)
(* Model of the advisor endpoint of catanatron/web/advisor_api.py: the     *)
(* custom board builder (create_custom_board), the partial state           *)
(* reconstruction (create_game_from_advisor_request), the request handler  *)
(* (advisor_endpoint) and the explanation generator (generate_explanation).*)
(***************************************************************************)
EXTENDS Integers, Sequences, FiniteSets, TLC

\* ------------------------------------------------------------------------
\* Hex-grid topology (catanatron.models.map, consumed by the advisor)
\* ------------------------------------------------------------------------

\* Python's None for a token-valued field.
None == "None"

\* The six neighbour directions, in the order the enumeration is iterated.
Directions == <<"EAST", "SOUTHEAST", "SOUTHWEST", "WEST", "NORTHWEST", "NORTHEAST">>

DirectionNames == {Directions[i] : i \in 1..Len(Directions)}

\* Cube-coordinate offset of the neighbour in each direction.
UNIT_VECTORS ==
  [EAST |-> <<1, -1, 0>>, SOUTHEAST |-> <<0, -1, 1>>, SOUTHWEST |-> <<-1, 0, 1>>,
   WEST |-> <<-1, 1, 0>>, NORTHWEST |-> <<0, 1, -1>>, NORTHEAST |-> <<1, 0, -1>>]

\* The six corners of a tile, in allocation order.
NodeRefs == <<"NORTH", "NORTHEAST", "SOUTHEAST", "SOUTH", "SOUTHWEST", "NORTHWEST">>

NodeRefNames == {NodeRefs[i] : i \in 1..Len(NodeRefs)}

\* The six sides of a tile.
EdgeRefs == <<"EAST", "SOUTHEAST", "SOUTHWEST", "WEST", "NORTHWEST", "NORTHEAST">>

EdgeRefNames == {EdgeRefs[i] : i \in 1..Len(EdgeRefs)}

add(a, b) == <<a[1] + b[1], a[2] + b[2], a[3] + b[3]>>

\* The value of a block of local assignments: {body : x \in {e}} evaluates e
\* once, names it x and holds the one value of body.
Only(S) == CHOOSE r \in S : TRUE

\* For a neighbour in direction d: the corners (mine, the neighbour's) and the
\* side (mine, the neighbour's) that the two tiles have in common.
SharedWith ==
  [EAST      |-> [nodes |-> <<<<"NORTHEAST", "NORTHWEST">>, <<"SOUTHEAST", "SOUTHWEST">>>>,
                  edge  |-> <<"EAST", "WEST">>],
   SOUTHEAST |-> [nodes |-> <<<<"SOUTH", "NORTHWEST">>, <<"SOUTHEAST", "NORTH">>>>,
                  edge  |-> <<"SOUTHEAST", "NORTHWEST">>],
   SOUTHWEST |-> [nodes |-> <<<<"SOUTH", "NORTHEAST">>, <<"SOUTHWEST", "NORTH">>>>,
                  edge  |-> <<"SOUTHWEST", "NORTHEAST">>],
   WEST      |-> [nodes |-> <<<<"NORTHWEST", "NORTHEAST">>, <<"SOUTHWEST", "SOUTHEAST">>>>,
                  edge  |-> <<"WEST", "EAST">>],
   NORTHWEST |-> [nodes |-> <<<<"NORTH", "SOUTHEAST">>, <<"NORTHWEST", "SOUTH">>>>,
                  edge  |-> <<"NORTHWEST", "SOUTHEAST">>],
   NORTHEAST |-> [nodes |-> <<<<"NORTH", "SOUTHWEST">>, <<"NORTHEAST", "SOUTH">>>>,
                  edge  |-> <<"NORTHEAST", "SOUTHWEST">>]]

\* The two corners a side runs between.
get_edge_nodes ==
  [EAST |-> <<"NORTHEAST", "SOUTHEAST">>, SOUTHEAST |-> <<"SOUTHEAST", "SOUTH">>,
   SOUTHWEST |-> <<"SOUTH", "SOUTHWEST">>, WEST |-> <<"SOUTHWEST", "NORTHWEST">>,
   NORTHWEST |-> <<"NORTHWEST", "NORTH">>, NORTHEAST |-> <<"NORTH", "NORTHEAST">>]

\* The id a placed neighbour already gives to corner ref of the tile at coord:
\* <<id>> of the last neighbour (in direction order) that owns it, else <<>>.
RECURSIVE PreNode(_, _, _, _)
PreNode(tiles, coord, ref, i) ==
  IF i = 0 THEN <<>>
  ELSE LET d  == Directions[i]
           nb == add(coord, UNIT_VECTORS[d])
           sh == SharedWith[d].nodes
       IN  IF nb \in DOMAIN tiles /\ \E k \in 1..2 : sh[k][1] = ref
           THEN LET k == CHOOSE k \in 1..2 : sh[k][1] = ref
                IN  <<tiles[nb].nodes[sh[k][2]]>>
           ELSE PreNode(tiles, coord, ref, i - 1)

\* The ids of the six corners in allocation order: a corner no neighbour owns
\* (pre[j] = <<>>) takes the next unused id.
RECURSIVE AllocNodes(_, _, _)
AllocNodes(pre, j, next) ==
  IF j > Len(pre) THEN <<>>
  ELSE IF pre[j] = <<>> THEN <<next>> \o AllocNodes(pre, j + 1, next + 1)
       ELSE <<pre[j][1]>> \o AllocNodes(pre, j + 1, next)

\* The side e of the tile at coord: the neighbour's pair if a neighbour is
\* placed there, else the pair of this tile's two corner ids.
EdgeOf(tiles, coord, nodes, e) ==
  LET nb == add(coord, UNIT_VECTORS[e])
  IN  IF nb \in DOMAIN tiles
      THEN tiles[nb].edges[SharedWith[e].edge[2]]
      ELSE <<nodes[get_edge_nodes[e][1]], nodes[get_edge_nodes[e][2]]>>

\* get_nodes_and_edges(tiles, coordinate, node_autoinc): reuse the ids of the
\* placed neighbours, allocate the next unused id for every other corner.
get_nodes_and_edges(tiles, coord, node_autoinc) ==
  Only({ Only({ Only({
    [nodes |-> nodes,
     edges |-> [EAST      |-> EdgeOf(tiles, coord, nodes, "EAST"),
                SOUTHEAST |-> EdgeOf(tiles, coord, nodes, "SOUTHEAST"),
                SOUTHWEST |-> EdgeOf(tiles, coord, nodes, "SOUTHWEST"),
                WEST      |-> EdgeOf(tiles, coord, nodes, "WEST"),
                NORTHWEST |-> EdgeOf(tiles, coord, nodes, "NORTHWEST"),
                NORTHEAST |-> EdgeOf(tiles, coord, nodes, "NORTHEAST")],
     node_autoinc |-> node_autoinc + Cardinality({j \in 1..6 : pre[j] = <<>>})]
    : nodes \in {[NORTH |-> ids[1], NORTHEAST |-> ids[2], SOUTHEAST |-> ids[3],
                  SOUTH |-> ids[4], SOUTHWEST |-> ids[5], NORTHWEST |-> ids[6]]} })
    : ids \in {AllocNodes(pre, 1, node_autoinc)} })
    : pre \in {<<PreNode(tiles, coord, "NORTH", 6), PreNode(tiles, coord, "NORTHEAST", 6),
                 PreNode(tiles, coord, "SOUTHEAST", 6), PreNode(tiles, coord, "SOUTH", 6),
                 PreNode(tiles, coord, "SOUTHWEST", 6),
                 PreNode(tiles, coord, "NORTHWEST", 6)>>} })

\* tiles[coord] = tile (a dict assignment: overwrites an existing key).
DictSet(f, k, v) == (k :> v) @@ f

EmptyDict == <<>>

LandTile(id, resource, number, nodes, edges) ==
  [type |-> "LandTile", id |-> id, resource |-> resource, number |-> number,
   direction |-> None, nodes |-> nodes, edges |-> edges]

Port(id, resource, direction, nodes, edges) ==
  [type |-> "Port", id |-> id, resource |-> resource, number |-> <<>>,
   direction |-> direction, nodes |-> nodes, edges |-> edges]

Water(nodes, edges) ==
  [type |-> "Water", id |-> -1, resource |-> None, number |-> <<>>,
   direction |-> None, nodes |-> nodes, edges |-> edges]

\* ------------------------------------------------------------------------
\* Token tables
\* ------------------------------------------------------------------------

\* RESOURCE_MAP: resource string -> engine resource.
RESOURCE_MAP ==
  [WOOD |-> "WOOD", BRICK |-> "BRICK", SHEEP |-> "SHEEP", WHEAT |-> "WHEAT", ORE |-> "ORE"]

\* DEV_CARD_MAP: development-card string -> engine card.
DEV_CARD_MAP ==
  [KNIGHT |-> "KNIGHT", VICTORY_POINT |-> "VICTORY_POINT", ROAD_BUILDING |-> "ROAD_BUILDING",
   YEAR_OF_PLENTY |-> "YEAR_OF_PLENTY", MONOPOLY |-> "MONOPOLY"]

\* dict.get(key): the mapped value, or None for a key the table does not have.
DictGet(table, key) == IF key \in DOMAIN table THEN table[key] ELSE None

\* ------------------------------------------------------------------------
\* create_custom_board
\* ------------------------------------------------------------------------

\* A land-tile descriptor of the request.
TileDesc(c, r, n) == [coordinate |-> c, resource |-> r, number |-> n]

\* The sort key of a tile descriptor, and the order of Python tuples.
SortKey(t) == t.coordinate

KeyLess(a, b) ==
  \/ a[1] < b[1]
  \/ a[1] = b[1] /\ a[2] < b[2]
  \/ a[1] = b[1] /\ a[2] = b[2] /\ a[3] < b[3]

\* Insert t behind every element whose key is not greater (the sort is stable).
RECURSIVE InsertSorted(_, _)
InsertSorted(s, t) ==
  IF s = <<>> THEN <<t>>
  ELSE IF KeyLess(SortKey(t), SortKey(Head(s))) THEN <<t>> \o s
       ELSE <<Head(s)>> \o InsertSorted(Tail(s), t)

\* The tile list as the caller gave it, without line 78's sort.
unsorted(s) == s

\* sorted(tiles_data, key=...): insertion of each element in turn.
RECURSIVE sorted(_)
sorted(s) ==
  IF s = <<>> THEN <<>>
  ELSE Only({InsertSorted(head, s[Len(s)]) : head \in {sorted(SubSeq(s, 1, Len(s) - 1))}})

\* The locals of create_custom_board.
BoardLocals(tiles, n, t, p) ==
  [all_tiles |-> tiles, node_autoinc |-> n, tile_autoinc |-> t, port_autoinc |-> p]

\* A land tile placed without looking at the tiles already on the board:
\* every corner gets a fresh id.
PlaceLandTileDetached(st, tile_info) ==
  Only({ BoardLocals(DictSet(st.all_tiles, tile_info.coordinate,
                             LandTile(st.tile_autoinc, tile_info.resource, tile_info.number,
                                      ne.nodes, ne.edges)),
                     ne.node_autoinc, st.tile_autoinc + 1, st.port_autoinc)
         : ne \in {get_nodes_and_edges(EmptyDict, tile_info.coordinate, st.node_autoinc)} })

\* One iteration of the land-tile loop.
PlaceLandTile(st, tile_info) ==
  LET coord    == tile_info.coordinate
      resource == tile_info.resource
      number   == tile_info.number
  IN  Only({ LET land_tile == IF resource = None
                              THEN LandTile(st.tile_autoinc, None, <<>>, ne.nodes, ne.edges)
                              ELSE LandTile(st.tile_autoinc, DictGet(RESOURCE_MAP, resource),
                                            number, ne.nodes, ne.edges)
             IN  BoardLocals(DictSet(st.all_tiles, coord, land_tile), ne.node_autoinc,
                             st.tile_autoinc + 1, st.port_autoinc)
             : ne \in {get_nodes_and_edges(st.all_tiles, coord, st.node_autoinc)} })

\* The land-tile loop over the sorted descriptors; tile_autoinc counts the
\* iterations done.
RECURSIVE PlaceLandTiles(_, _)
PlaceLandTiles(st, sorted_tiles) ==
  IF st.tile_autoinc >= Len(sorted_tiles) THEN st
  ELSE Only({ PlaceLandTiles(next_st, sorted_tiles)
              : next_st \in {PlaceLandTile(st, sorted_tiles[st.tile_autoinc + 1])} })

\* First pass of create_custom_board: sort, then place every land tile.
LandPass(tiles_data) ==
  Only({ PlaceLandTiles(BoardLocals(EmptyDict, 0, 0, 0), sorted_tiles)
         : sorted_tiles \in {sorted(tiles_data)} })

\* Direction[direction_str] raises KeyError for a name the enumeration lacks.
DirectionLookupRaises(port_info) == port_info.direction \notin DirectionNames

\* One iteration of the port loop (for a direction the enumeration has).
PlacePort(st, port_info) ==
  LET coord    == port_info.coordinate
      resource == port_info.resource
      fast_resource == IF resource # None THEN DictGet(RESOURCE_MAP, resource) ELSE None
  IN  Only({ BoardLocals(DictSet(st.all_tiles, coord,
                                 Port(st.port_autoinc, fast_resource, port_info.direction,
                                      ne.nodes, ne.edges)),
                         ne.node_autoinc, st.tile_autoinc, st.port_autoinc + 1)
             : ne \in {get_nodes_and_edges(st.all_tiles, coord, st.node_autoinc)} })

\* The port loop; port_autoinc counts the iterations done.  The loop stops
\* where a direction lookup raises.
RECURSIVE PlacePorts(_, _)
PlacePorts(st, ports_data) ==
  IF st.port_autoinc >= Len(ports_data) \/ DirectionLookupRaises(ports_data[st.port_autoinc + 1])
  THEN st
  ELSE Only({ PlacePorts(next_st, ports_data)
              : next_st \in {PlacePort(st, ports_data[st.port_autoinc + 1])} })

PortPassRaises(ports_data) ==
  \E i \in 1..Len(ports_data) : DirectionLookupRaises(ports_data[i])

\* The positions of the outer ring, in the order they are filled.
water_coords ==
  << <<3, -3, 0>>, <<2, -3, 1>>, <<1, -3, 2>>, <<0, -3, 3>>,
     <<-1, -2, 3>>, <<-2, -1, 3>>, <<-3, 0, 3>>, <<-3, 1, 2>>,
     <<-3, 2, 1>>, <<-3, 3, 0>>, <<-2, 3, -1>>, <<-1, 3, -2>>,
     <<0, 3, -3>>, <<1, 2, -3>>, <<2, 1, -3>>, <<3, 0, -3>>,
     <<3, -1, -2>>, <<3, -2, -1>> >>

\* The water loop from the i-th ring position on.
RECURSIVE FillWater(_, _)
FillWater(st, i) ==
  IF i > Len(water_coords) THEN st
  ELSE LET coord == water_coords[i]
       IN  IF coord \notin DOMAIN st.all_tiles
           THEN Only({ Only({ FillWater(next_st, i + 1)
                  : next_st \in {BoardLocals(DictSet(st.all_tiles, coord,
                                                     Water(ne.nodes, ne.edges)),
                                             ne.node_autoinc, st.tile_autoinc,
                                             st.port_autoinc)} })
                  : ne \in {get_nodes_and_edges(st.all_tiles, coord, st.node_autoinc)} })
           ELSE FillWater(st, i + 1)

\* create_custom_board(tiles_data, ports_data), every port direction being known:
\* the three passes in order.
create_custom_board(tiles_data, ports_data) ==
  Only({ Only({ FillWater(ported, 1).all_tiles
                : ported \in {PlacePorts(land, ports_data)} })
         : land \in {LandPass(tiles_data)} })

\* CatanMap.from_tiles: the map keeps the tiles and derives the land nodes.
land_nodes(tiles) ==
  UNION {{tiles[c].nodes[r] : r \in NodeRefNames} :
           c \in {c \in DOMAIN tiles : tiles[c].type = "LandTile"}}

\* ------------------------------------------------------------------------
\* The canonical board (BASE_MAP_TEMPLATE) and the static adjacency table
\* ------------------------------------------------------------------------

\* The land positions of the canonical template in its processing order: the
\* centre, the first ring, the second ring.  The outer ring follows, in the
\* order of water_coords.
BASE_LAND_COORDS ==
  << <<0, 0, 0>>,
     <<1, -1, 0>>, <<0, -1, 1>>, <<-1, 0, 1>>, <<-1, 1, 0>>, <<0, 1, -1>>, <<1, 0, -1>>,
     <<2, -2, 0>>, <<1, -2, 1>>, <<0, -2, 2>>, <<-1, -1, 2>>, <<-2, 0, 2>>, <<-2, 1, 1>>,
     <<-2, 2, 0>>, <<-1, 2, -1>>, <<0, 2, -2>>, <<1, 1, -2>>, <<2, 0, -2>>, <<2, -1, -1>> >>

\* Resources and dice numbers of the canonical board are shuffled by the engine
\* and play no part in the topology: its land tiles are placed without them
\* (ports of the outer ring share ids as water does).
BASE_MAP_TILES ==
  Only({ FillWater(land, 1).all_tiles
         : land \in {PlaceLandTiles(BoardLocals(EmptyDict, 0, 0, 0),
                                    [i \in 1..Len(BASE_LAND_COORDS) |->
                                       TileDesc(BASE_LAND_COORDS[i], None, <<>>)])} })

\* The undirected graph of a tile map: its vertices and, per vertex, the
\* vertices one edge away.
GraphNodes(tiles) == UNION {{tiles[c].nodes[r] : r \in NodeRefNames} : c \in DOMAIN tiles}

GraphEdges(tiles) == UNION {{tiles[c].edges[e] : e \in EdgeRefNames} : c \in DOMAIN tiles}

GraphNeighbors(tiles) ==
  LET E == GraphEdges(tiles)
  IN  [n \in GraphNodes(tiles) |->
         {e[2] : e \in {e \in E : e[1] = n}} \cup {e[1] : e \in {e \in E : e[2] = n}}]

\* STATIC_GRAPH: the adjacency of the canonical board, computed once at import.
STATIC_GRAPH == GraphNeighbors(BASE_MAP_TILES)

\* ------------------------------------------------------------------------
\* State
\* ------------------------------------------------------------------------

VARIABLES
  pc,                    \* where the request is in advisor_endpoint
  data,                  \* the request body, as far as it has been read
  all_tiles,             \* create_custom_board: coordinate -> tile
  node_autoinc,          \* create_custom_board: next unused vertex id
  tile_autoinc,          \* create_custom_board: next land tile id
  port_autoinc,          \* create_custom_board: next port id
  catan_map,             \* <<>> (None: use the default) or <<tiles>>
  colors,                \* game.state.colors
  advised_color,         \* the colour being advised
  buildings,             \* game.state.board.buildings: vertex -> <<colour, kind>>
  buildings_by_color,    \* game.state.buildings_by_color
  board_buildable_ids,   \* game.state.board.board_buildable_ids
  roads,                 \* game.state.board.roads: <<a, b>> -> colour
  robber_coordinate,     \* game.state.board.robber_coordinate
  player_state,          \* game.state.player_state, per seat
  current_player_index,  \* game.state.current_player_index (and turn index)
  is_initial_build_phase,
  current_prompt,
  playable_actions,      \* game.state.playable_actions
  decide_calls,          \* how often the decision procedure was invoked
  recommended_action,    \* what the decision procedure returned
  exc,                   \* the exception in flight, "" if none
  response               \* the HTTP response of the request

boardVars == <<all_tiles, node_autoinc, tile_autoinc, port_autoinc, catan_map>>

gameVars ==
  <<colors, advised_color, buildings, buildings_by_color,
    board_buildable_ids, roads, robber_coordinate, player_state, current_player_index,
    is_initial_build_phase, current_prompt, playable_actions>>

endVars == <<decide_calls, recommended_action, exc, response>>

vars == <<pc, data, boardVars, gameVars, endVars>>

\* ------------------------------------------------------------------------
\* Engine tables (catanatron.models.player, catanatron.state)
\* ------------------------------------------------------------------------

\* The Color enumeration, in the seating order the advisor fixes.
ColorEnum == <<"RED", "BLUE", "ORANGE", "WHITE">>

ColorNames == {ColorEnum[i] : i \in 1..Len(ColorEnum)}

\* PLAYER_INITIAL_STATE: the starting stock of a player.
SETTLEMENTS_START == 5

CITIES_START == 4

ROADS_START == 15

PLAYER_INITIAL_STATE ==
  [VICTORY_POINTS |-> 0, ACTUAL_VICTORY_POINTS |-> 0,
   SETTLEMENTS_AVAILABLE |-> SETTLEMENTS_START, CITIES_AVAILABLE |-> CITIES_START,
   ROADS_AVAILABLE |-> ROADS_START, PLAYED_KNIGHT |-> 0, HAS_ROLLED |-> FALSE,
   WOOD_IN_HAND |-> 0, BRICK_IN_HAND |-> 0, SHEEP_IN_HAND |-> 0, WHEAT_IN_HAND |-> 0,
   ORE_IN_HAND |-> 0, KNIGHT_IN_HAND |-> 0, VICTORY_POINT_IN_HAND |-> 0,
   ROAD_BUILDING_IN_HAND |-> 0, YEAR_OF_PLENTY_IN_HAND |-> 0, MONOPOLY_IN_HAND |-> 0]

\* state.color_to_index[color]: the seat of a colour, -1 standing for KeyError.
color_to_index(cs, color) ==
  IF \E i \in 1..Len(cs) : cs[i] = color
  THEN (CHOOSE i \in 1..Len(cs) : cs[i] = color) - 1
  ELSE -1

Range(s) == {s[i] : i \in 1..Len(s)}

\* ------------------------------------------------------------------------
\* Bounded inputs
\* ------------------------------------------------------------------------

MaxTiles == 3

MaxPorts == 1

PortDesc(c, d, r) == [coordinate |-> c, direction |-> d, resource |-> r]

\* Land-tile descriptors a caller may send: three mutually adjacent tiles, one
\* next to the outer ring with a resource the table lacks, one whose
\* coordinate does not sum to zero; a list may name a descriptor twice.
TileChoices ==
  { TileDesc(<<0, 0, 0>>, "WOOD", <<6>>),
    TileDesc(<<0, -1, 1>>, None, <<>>),
    TileDesc(<<1, -1, 0>>, "BRICK", <<8>>),
    TileDesc(<<2, -2, 0>>, "GOLD", <<5>>),
    TileDesc(<<1, 1, 0>>, "SHEEP", <<4>>) }

\* Port descriptors a caller may send: one on the outer ring, one with a
\* direction the enumeration lacks, one on a land coordinate, one with a
\* resource the table lacks.
PortChoices ==
  { PortDesc(<<3, -3, 0>>, "WEST", None),
    PortDesc(<<3, -2, -1>>, "NORTH", "WOOD"),
    PortDesc(<<0, 0, 0>>, "EAST", "ORE"),
    PortDesc(<<2, -3, 1>>, "NORTHWEST", "GOLD") }

SeqsUpTo(S, n) == UNION {[1..k -> S] : k \in 0..n}

\* The request body before any override collection has been read.
Request(tiles, ports, num_players, advised_player) ==
  [tiles |-> tiles, ports |-> ports, num_players |-> num_players,
   advised_player |-> advised_player, buildings |-> <<>>, roads |-> <<>>,
   robber_coordinate |-> <<>>, player_resources |-> <<>>, player_dev_cards |-> <<>>,
   players_knights |-> <<>>]

NoResponse ==
  [status |-> 0, success |-> FALSE, action_type |-> "", action_value |-> [none |-> TRUE],
   explanation |-> "", victory_points |-> <<>>, all_actions |-> <<>>, error |-> ""]

NoAction == [action_type |-> "", value |-> [none |-> TRUE]]

\* Nothing of the game exists before Game(...) has run.
NoGame ==
  /\ colors = <<>>
  /\ advised_color = ""
  /\ buildings = <<>>
  /\ buildings_by_color = <<>>
  /\ board_buildable_ids = {}
  /\ roads = <<>>
  /\ robber_coordinate = <<>>
  /\ player_state = <<>>
  /\ current_player_index = -1
  /\ is_initial_build_phase = TRUE
  /\ current_prompt = ""
  /\ playable_actions = <<>>

NoBoard ==
  /\ all_tiles = EmptyDict
  /\ node_autoinc = 0
  /\ tile_autoinc = 0
  /\ port_autoinc = 0
  /\ catan_map = <<>>

NoEnd ==
  /\ decide_calls = 0
  /\ recommended_action = NoAction
  /\ exc = ""
  /\ response = NoResponse

\* ------------------------------------------------------------------------
\* create_custom_board, pass by pass
\* ------------------------------------------------------------------------

\* Lines 71-96: the locals, the sort and the land-tile loop.
LandTilePass ==
  /\ pc = "board_land"
  /\ LET st == LandPass(data.tiles)
     IN  /\ all_tiles' = st.all_tiles
         /\ node_autoinc' = st.node_autoinc
         /\ tile_autoinc' = st.tile_autoinc
         /\ port_autoinc' = st.port_autoinc
  /\ pc' = "board_ports"
  /\ UNCHANGED <<data, catan_map, gameVars, endVars>>

\* Lines 98-111: the port loop, every direction being one of the enumeration.
PortPass ==
  /\ pc = "board_ports"
  /\ ~PortPassRaises(data.ports)
  /\ LET st == PlacePorts(BoardLocals(all_tiles, node_autoinc, tile_autoinc, port_autoinc),
                          data.ports)
     IN  /\ all_tiles' = st.all_tiles
         /\ node_autoinc' = st.node_autoinc
         /\ port_autoinc' = st.port_autoinc
  /\ pc' = "board_water"
  /\ UNCHANGED <<data, tile_autoinc, catan_map, gameVars, endVars>>

\* Lines 98-111: the port loop up to the descriptor whose direction lookup raises.
PortRaise ==
  /\ pc = "board_ports"
  /\ PortPassRaises(data.ports)
  /\ LET st == PlacePorts(BoardLocals(all_tiles, node_autoinc, tile_autoinc, port_autoinc),
                          data.ports)
     IN  /\ all_tiles' = st.all_tiles
         /\ node_autoinc' = st.node_autoinc
         /\ port_autoinc' = st.port_autoinc
  /\ exc' = "KeyError"
  /\ pc' = "except"
  /\ UNCHANGED <<data, tile_autoinc, catan_map, gameVars, decide_calls, recommended_action,
                 response>>

\* Lines 113-126: the water loop and the returned map; the locals end with the call.
WaterPass ==
  /\ pc = "board_water"
  /\ LET st == FillWater(BoardLocals(all_tiles, node_autoinc, tile_autoinc, port_autoinc), 1)
     IN  catan_map' = <<st.all_tiles>>
  /\ all_tiles' = EmptyDict
  /\ node_autoinc' = 0
  /\ tile_autoinc' = 0
  /\ port_autoinc' = 0
  /\ pc' = "game"
  /\ UNCHANGED <<data, gameVars, endVars>>

\* create_custom_board called on its own with any descriptor lists.
InitBoard ==
  /\ pc = "board_land"
  /\ data \in {Request(t, p, 2, "RED") :
                 t \in SeqsUpTo(TileChoices, MaxTiles), p \in SeqsUpTo(PortChoices, MaxPorts)}
  /\ NoBoard /\ NoGame /\ NoEnd

NextBoard == LandTilePass \/ PortPass \/ PortRaise \/ WaterPass

SpecBoard == InitBoard /\ [][NextBoard]_vars

\* ------------------------------------------------------------------------
\* Actions of the engine and their text
\* ------------------------------------------------------------------------

\* The ActionType enumeration.
ActionTypes ==
  {"ROLL", "MOVE_ROBBER", "DISCARD", "BUILD_ROAD", "BUILD_SETTLEMENT", "BUILD_CITY",
   "BUY_DEVELOPMENT_CARD", "PLAY_KNIGHT_CARD", "PLAY_YEAR_OF_PLENTY", "PLAY_MONOPOLY",
   "PLAY_ROAD_BUILDING", "MARITIME_TRADE", "OFFER_TRADE", "ACCEPT_TRADE", "REJECT_TRADE",
   "CONFIRM_TRADE", "CANCEL_TRADE", "END_TURN"}

\* An action: its kind and its payload.  A payload is None ([none |-> TRUE]), an
\* integer ([int |-> n]), a string ([str |-> s]) or a tuple ([tuple |-> <<...>>])
\* whose elements are payloads again.
Action(action_type, value) == [action_type |-> action_type, value |-> value]

PyNone == [none |-> TRUE]

PyInt(n) == [int |-> n]

PyStrg(x) == [str |-> x]

PyTuple(t) == [tuple |-> t]

IsNone(v) == "none" \in DOMAIN v

IsInt(v) == "int" \in DOMAIN v

IsStrg(v) == "str" \in DOMAIN v

IsTuple(v) == "tuple" \in DOMAIN v

\* Python truth value of a payload (if value:).
Truthy(v) ==
  IF IsNone(v) THEN FALSE
  ELSE IF IsInt(v) THEN v.int # 0
  ELSE IF IsStrg(v) THEN v.str # ""
  ELSE v.tuple # <<>>

\* repr(v) and str(v): what an f-string prints for a payload, and for a payload
\* inside a tuple.
RECURSIVE PyRepr(_)
RECURSIVE PyJoin(_, _)
PyJoin(t, i) ==
  IF i > Len(t) THEN ""
  ELSE PyRepr(t[i]) \o (IF i < Len(t) THEN ", " \o PyJoin(t, i + 1) ELSE "")

PyRepr(v) ==
  IF IsNone(v) THEN "None"
  ELSE IF IsInt(v) THEN ToString(v.int)
  ELSE IF IsStrg(v) THEN "'" \o v.str \o "'"
  ELSE IF Len(v.tuple) = 1 THEN "(" \o PyRepr(v.tuple[1]) \o ",)"
  ELSE "(" \o PyJoin(v.tuple, 1) \o ")"

PyFormat(v) == IF IsStrg(v) THEN v.str ELSE PyRepr(v)

\* f"{action_type}" of an enumeration member.
EnumStr(action_type) == "ActionType." \o action_type

\* Lines 375-376: the text for a kind without a template.
\* An explanation that leaves the fallback out.
NoExplanation(action_type) == ""

FallbackExplanation(action_type) == "Recommended action: " \o EnumStr(action_type)

\* generate_explanation(action, game, advised_color)
generate_explanation(action) ==
  LET action_type == action.action_type
      value       == action.value
  IN  IF action_type = "END_TURN"
      THEN "End your turn. No better moves available with current resources."
      ELSE IF action_type = "BUILD_SETTLEMENT"
      THEN "Build a settlement at node " \o PyFormat(value)
             \o ". This expands your resource production."
      ELSE IF action_type = "BUILD_CITY"
      THEN "Upgrade settlement at node " \o PyFormat(value)
             \o " to a city. This doubles resource production from that location."
      ELSE IF action_type = "BUILD_ROAD"
      THEN "Build a road at edge " \o PyFormat(value)
             \o ". This helps connect settlements and work toward longest road."
      ELSE IF action_type = "BUY_DEVELOPMENT_CARD"
      THEN "Buy a development card. Development cards provide powerful abilities and potential victory points."
      ELSE IF action_type = "PLAY_KNIGHT_CARD"
      THEN "Play a knight card. This allows you to move the robber and steal a resource."
      ELSE IF action_type = "MARITIME_TRADE"
      THEN IF Truthy(value)
           THEN LET give_resource == IF Len(value.tuple) > 0 THEN PyFormat(value.tuple[1])
                                     ELSE "resources"
                    get_resource  == IF Len(value.tuple) > 1
                                     THEN PyFormat(value.tuple[Len(value.tuple)])
                                     ELSE "resources"
                IN  "Trade " \o give_resource \o " for " \o get_resource
                      \o " using a port or bank trade."
           ELSE "Make a maritime/bank trade to get the resources you need."
      ELSE IF action_type = "MOVE_ROBBER"
      THEN IF Truthy(value)
           THEN LET coord == IF Len(value.tuple) > 0 THEN PyFormat(value.tuple[1])
                             ELSE "a tile"
                IN  "Move the robber to " \o coord
                      \o ". This blocks resource production and lets you steal."
           ELSE "Move the robber to block an opponent's production."
      ELSE IF action_type = "PLAY_ROAD_BUILDING"
      THEN "Play Road Building card to build two roads for free."
      ELSE IF action_type = "PLAY_YEAR_OF_PLENTY"
      THEN "Play Year of Plenty to get free resources: " \o PyFormat(value)
      ELSE IF action_type = "PLAY_MONOPOLY"
      THEN "Play Monopoly to take all " \o PyFormat(value) \o " from other players."
      ELSE FallbackExplanation(action_type)

\* format_action(action)
format_action(action) ==
  IF ~IsNone(action.value)
  THEN action.action_type \o ": " \o PyFormat(action.value)
  ELSE action.action_type

\* ------------------------------------------------------------------------
\* Bounded request inputs
\* ------------------------------------------------------------------------

\* The number of override entries (buildings, roads, robber, hand, cards, knights)
\* of a request.
MaxOverrides == 2

\* Board descriptions of a request: none (the default board), a custom board of
\* two adjacent tiles, and the same with a port whose direction is unknown.
CustomTiles == <<TileDesc(<<0, 0, 0>>, "WOOD", <<6>>), TileDesc(<<0, -1, 1>>, None, <<>>)>>

RequestBoards ==
  { [tiles |-> <<>>, ports |-> <<>>],
    [tiles |-> CustomTiles, ports |-> <<>>],
    [tiles |-> CustomTiles, ports |-> <<PortDesc(<<3, -2, -1>>, "NORTH", "WOOD")>>] }

NumPlayersChoices == {2}

\* Colour tokens of a request: the seated colours, a colour of the enumeration
\* that has no seat in a two-player game, and a token the enumeration lacks.
SeatedTokens == {"RED", "BLUE"}

ColorTokens == SeatedTokens \cup {"ORANGE", "PURPLE"}

\* Vertex ids of building overrides: 0 and 7 are vertices of every board here,
\* 200 is a vertex of no board.
BuildNodes == {0, 7}

BuildingEntry(n, c, b) == [node_id |-> n, color |-> c, building |-> b]

BuildingEntries ==
  {BuildingEntry(n, c, b) : n \in BuildNodes, c \in SeatedTokens, b \in {"SETTLEMENT", "CITY"}}
    \cup {BuildingEntry(0, "PURPLE", "SETTLEMENT"), BuildingEntry(0, "ORANGE", "CITY"),
          BuildingEntry(200, "RED", "SETTLEMENT")}

\* Edge ids of road overrides: an edge in both orientations and a pair that is
\* an edge of no board.
RoadEdges == {<<0, 1>>, <<1, 0>>, <<0, 3>>}

RoadEntry(e, c) == [edge_id |-> e, color |-> c]

RoadEntries ==
  {RoadEntry(e, c) : e \in RoadEdges, c \in SeatedTokens}
    \cup {RoadEntry(<<0, 1>>, "PURPLE"), RoadEntry(<<0, 1>>, "ORANGE")}

RobberChoices == {<<>>, <<<<0, 0, 0>>>>}

ResourceItems == {<<"WOOD", 2>>, <<"GOLD", 1>>}

DevCardItems == {<<"VICTORY_POINT", 1>>, <<"DRAGON", 1>>}

KnightItems == {<<"BLUE", 2>>, <<"PURPLE", 1>>}

\* What the legal-action enumerator may return, and what the decision
\* procedure may return.
END_TURN == Action("END_TURN", PyNone)

BUILD_ROAD_01 == Action("BUILD_ROAD", PyTuple(<<PyInt(0), PyInt(1)>>))

BUILD_CITY_0 == Action("BUILD_CITY", PyInt(0))

ActionLists == {<<>>, <<BUILD_ROAD_01, END_TURN>>}

DecideUniverse == {END_TURN, BUILD_CITY_0}

OverridesRead ==
  Len(data.buildings) + Len(data.roads) + Len(data.robber_coordinate)
    + Len(data.player_resources) + Len(data.player_dev_cards) + Len(data.players_knights)

Keys(items) == {items[i][1] : i \in 1..Len(items)}

\* ------------------------------------------------------------------------
\* create_game_from_advisor_request
\* ------------------------------------------------------------------------

Raise(e) == exc' = e /\ pc' = "except"

\* The tiles of the board of the game: the custom map, or the default one.
BoardTiles == IF catan_map = <<>> THEN BASE_MAP_TILES ELSE catan_map[1]

\* Lines 131-150, Color[advised_player_str] being a member: the players, and
\* whether a custom map is built.
Start ==
  /\ pc = "start"
  /\ data.advised_player \in ColorNames
  /\ advised_color' = data.advised_player
  /\ pc' = IF data.tiles # <<>> THEN "board_land" ELSE "game"
  /\ UNCHANGED <<data, boardVars, colors, buildings, buildings_by_color,
                 board_buildable_ids, roads, robber_coordinate, player_state,
                 current_player_index, is_initial_build_phase, current_prompt,
                 playable_actions, endVars>>

\* Line 133: Color[advised_player_str] raises KeyError.
StartRaise ==
  /\ pc = "start"
  /\ data.advised_player \notin ColorNames
  /\ Raise("KeyError")
  /\ UNCHANGED <<data, boardVars, gameVars, decide_calls, recommended_action, response>>

\* Lines 136 and 152-158: Game(players, catan_map) and the fixed seating.
NewGame ==
  /\ pc = "game"
  /\ colors' = SubSeq(ColorEnum, 1, data.num_players)
  /\ buildings' = <<>>
  /\ buildings_by_color' = [c \in Range(colors') |-> [SETTLEMENT |-> <<>>, CITY |-> <<>>]]
  /\ board_buildable_ids' = land_nodes(BoardTiles)
  /\ roads' = <<>>
  /\ robber_coordinate' = <<>>
  /\ player_state' = [i \in 0..(data.num_players - 1) |-> PLAYER_INITIAL_STATE]
  /\ current_player_index' = 0
  /\ is_initial_build_phase' = TRUE
  /\ current_prompt' = "BUILD_INITIAL_SETTLEMENT"
  /\ pc' = "buildings"
  /\ UNCHANGED <<data, boardVars, advised_color, playable_actions, endVars>>

\* Line 165: the building kind of an override.
BuildingType(building_info) == IF building_info.building = "SETTLEMENT" THEN "SETTLEMENT" ELSE "CITY"

\* Lines 172-175: the vertex and its neighbours in the static table leave the buildable set.
DiscardAround(buildable, node_id) == (buildable \ {node_id}) \ STATIC_GRAPH[node_id]

\* A counter update that takes a city out of the settlement stock.
BuildingUpdateOneStock(ps, p, building_type) ==
  [ps EXCEPT ![p].SETTLEMENTS_AVAILABLE = @ - 1,
             ![p].VICTORY_POINTS = @ + (IF building_type = "SETTLEMENT" THEN 1 ELSE 2),
             ![p].ACTUAL_VICTORY_POINTS = @ + (IF building_type = "SETTLEMENT" THEN 1 ELSE 2)]

\* Lines 178-186: stock and victory points of the owner.
BuildingUpdate(ps, p, building_type) ==
  IF building_type = "SETTLEMENT"
  THEN [ps EXCEPT ![p].SETTLEMENTS_AVAILABLE = @ - 1,
                  ![p].VICTORY_POINTS = @ + 1,
                  ![p].ACTUAL_VICTORY_POINTS = @ + 1]
  ELSE [ps EXCEPT ![p].CITIES_AVAILABLE = @ - 1,
                  ![p].VICTORY_POINTS = @ + 2,
                  ![p].ACTUAL_VICTORY_POINTS = @ + 2]

\* Lines 162-186: one iteration of the building loop.
ApplyBuilding ==
  /\ pc = "buildings"
  /\ OverridesRead < MaxOverrides
  /\ \E building_info \in BuildingEntries :
       LET node_id == building_info.node_id
           color   == building_info.color
           building_type == BuildingType(building_info)
       IN  /\ color \in Range(colors)
           /\ node_id \in DOMAIN STATIC_GRAPH
           /\ data' = [data EXCEPT !.buildings = Append(@, building_info)]
           /\ buildings' = DictSet(buildings, node_id, <<color, building_type>>)
           /\ buildings_by_color' =
                [buildings_by_color EXCEPT ![color][building_type] = Append(@, node_id)]
           /\ board_buildable_ids' = DiscardAround(board_buildable_ids, node_id)
           /\ player_state' =
                BuildingUpdate(player_state, color_to_index(colors, color), building_type)
  /\ UNCHANGED <<pc, boardVars, colors, advised_color, roads, robber_coordinate,
                 current_player_index, is_initial_build_phase, current_prompt,
                 playable_actions, endVars>>

\* Lines 162-175: an iteration that raises: KeyError from Color[...] (line 164)
\* or from buildings_by_color[color] (line 169), NetworkXError from
\* STATIC_GRAPH.neighbors (line 174); what was assigned before stays assigned.
ApplyBuildingRaise ==
  /\ pc = "buildings"
  /\ OverridesRead < MaxOverrides
  /\ \E building_info \in BuildingEntries :
       LET node_id == building_info.node_id
           color   == building_info.color
           building_type == BuildingType(building_info)
       IN  /\ data' = [data EXCEPT !.buildings = Append(@, building_info)]
           /\ \/ /\ color \notin ColorNames
                 /\ Raise("KeyError")
                 /\ UNCHANGED <<buildings, buildings_by_color, board_buildable_ids>>
              \/ /\ color \in ColorNames \ Range(colors)
                 /\ buildings' = DictSet(buildings, node_id, <<color, building_type>>)
                 /\ Raise("KeyError")
                 /\ UNCHANGED <<buildings_by_color, board_buildable_ids>>
              \/ /\ color \in Range(colors)
                 /\ node_id \notin DOMAIN STATIC_GRAPH
                 /\ buildings' = DictSet(buildings, node_id, <<color, building_type>>)
                 /\ buildings_by_color' =
                      [buildings_by_color EXCEPT ![color][building_type] = Append(@, node_id)]
                 /\ board_buildable_ids' = board_buildable_ids \ {node_id}
                 /\ Raise("NetworkXError")
  /\ UNCHANGED <<boardVars, colors, advised_color, roads, robber_coordinate, player_state,
                 current_player_index, is_initial_build_phase, current_prompt,
                 playable_actions, decide_calls, recommended_action, response>>

\* Line 162: the building list is exhausted.
EndBuildings ==
  /\ pc = "buildings"
  /\ pc' = "roads"
  /\ UNCHANGED <<data, boardVars, gameVars, endVars>>

\* Lines 195-196: the road is registered under both orientations.
SetRoad(rs, edge_id, color) ==
  DictSet(DictSet(rs, edge_id, color), <<edge_id[2], edge_id[1]>>, color)

\* Lines 199-200: the road stock of the owner.
RoadUpdate(ps, p) == [ps EXCEPT ![p].ROADS_AVAILABLE = @ - 1]

\* Lines 190-200: one iteration of the road loop.
ApplyRoad ==
  /\ pc = "roads"
  /\ OverridesRead < MaxOverrides
  /\ \E road_info \in RoadEntries :
       /\ road_info.color \in Range(colors)
       /\ data' = [data EXCEPT !.roads = Append(@, road_info)]
       /\ roads' = SetRoad(roads, road_info.edge_id, road_info.color)
       /\ player_state' = RoadUpdate(player_state, color_to_index(colors, road_info.color))
  /\ UNCHANGED <<pc, boardVars, colors, advised_color, buildings, buildings_by_color,
                 board_buildable_ids, robber_coordinate, current_player_index,
                 is_initial_build_phase, current_prompt, playable_actions, endVars>>

\* Lines 190-199: an iteration that raises KeyError, from Color[...] (line 192)
\* or from player_key (line 199, the road being registered by then).
ApplyRoadRaise ==
  /\ pc = "roads"
  /\ OverridesRead < MaxOverrides
  /\ \E road_info \in RoadEntries :
       /\ data' = [data EXCEPT !.roads = Append(@, road_info)]
       /\ \/ /\ road_info.color \notin ColorNames
             /\ UNCHANGED roads
          \/ /\ road_info.color \in ColorNames \ Range(colors)
             /\ roads' = SetRoad(roads, road_info.edge_id, road_info.color)
  /\ Raise("KeyError")
  /\ UNCHANGED <<boardVars, colors, advised_color, buildings, buildings_by_color,
                 board_buildable_ids, robber_coordinate, player_state, current_player_index,
                 is_initial_build_phase, current_prompt, playable_actions, decide_calls,
                 recommended_action, response>>

\* Lines 203-210: the robber override and the advised player as current player.
SetRobberAndCurrent ==
  /\ pc = "roads"
  /\ advised_color \in Range(colors)
  /\ \E robber_coord \in RobberChoices :
       /\ OverridesRead + Len(robber_coord) <= MaxOverrides
       /\ data' = [data EXCEPT !.robber_coordinate = robber_coord]
       /\ robber_coordinate' = IF robber_coord # <<>> THEN robber_coord ELSE robber_coordinate
  /\ current_player_index' = color_to_index(colors, advised_color)
  /\ pc' = "resources"
  /\ UNCHANGED <<boardVars, colors, advised_color, buildings, buildings_by_color,
                 board_buildable_ids, roads, player_state, is_initial_build_phase,
                 current_prompt, playable_actions, endVars>>

\* Line 208: color_to_index[advised_color] raises KeyError for a colour without a seat.
SetCurrentRaise ==
  /\ pc = "roads"
  /\ advised_color \notin Range(colors)
  /\ \E robber_coord \in RobberChoices :
       /\ OverridesRead + Len(robber_coord) <= MaxOverrides
       /\ data' = [data EXCEPT !.robber_coordinate = robber_coord]
       /\ robber_coordinate' = IF robber_coord # <<>> THEN robber_coord ELSE robber_coordinate
  /\ Raise("KeyError")
  /\ UNCHANGED <<boardVars, colors, advised_color, buildings, buildings_by_color,
                 board_buildable_ids, roads, player_state, current_player_index,
                 is_initial_build_phase, current_prompt, playable_actions, decide_calls,
                 recommended_action, response>>

\* Lines 216-217 and 222-223: a count is stored only under a token of the table.
SetInHand(ps, p, table, token, count) ==
  IF token \in DOMAIN table THEN [ps EXCEPT ![p][token \o "_IN_HAND"] = count] ELSE ps

\* Lines 213-217: one item of the hand override of the advised player.
ApplyResource ==
  /\ pc = "resources"
  /\ OverridesRead < MaxOverrides
  /\ \E item \in ResourceItems :
       /\ item[1] \notin Keys(data.player_resources)
       /\ data' = [data EXCEPT !.player_resources = Append(@, item)]
       /\ player_state' = SetInHand(player_state, color_to_index(colors, advised_color),
                                    RESOURCE_MAP, item[1], item[2])
  /\ UNCHANGED <<pc, boardVars, colors, advised_color, buildings, buildings_by_color,
                 board_buildable_ids, roads, robber_coordinate, current_player_index,
                 is_initial_build_phase, current_prompt, playable_actions, endVars>>

\* Line 215: the hand override is exhausted.
EndResources ==
  /\ pc = "resources"
  /\ pc' = "dev_cards"
  /\ UNCHANGED <<data, boardVars, gameVars, endVars>>

\* Lines 220-223: one item of the development-card override of the advised player.
ApplyDevCard ==
  /\ pc = "dev_cards"
  /\ OverridesRead < MaxOverrides
  /\ \E item \in DevCardItems :
       /\ item[1] \notin Keys(data.player_dev_cards)
       /\ data' = [data EXCEPT !.player_dev_cards = Append(@, item)]
       /\ player_state' = SetInHand(player_state, color_to_index(colors, advised_color),
                                    DEV_CARD_MAP, item[1], item[2])
  /\ UNCHANGED <<pc, boardVars, colors, advised_color, buildings, buildings_by_color,
                 board_buildable_ids, roads, robber_coordinate, current_player_index,
                 is_initial_build_phase, current_prompt, playable_actions, endVars>>

\* Line 221: the development-card override is exhausted.
EndDevCards ==
  /\ pc = "dev_cards"
  /\ pc' = "knights"
  /\ UNCHANGED <<data, boardVars, gameVars, endVars>>

\* Lines 226-230: one item of the played-knights override.
ApplyKnights ==
  /\ pc = "knights"
  /\ OverridesRead < MaxOverrides
  /\ \E item \in KnightItems :
       /\ item[1] \notin Keys(data.players_knights)
       /\ item[1] \in Range(colors)
       /\ data' = [data EXCEPT !.players_knights = Append(@, item)]
       /\ player_state' =
            [player_state EXCEPT ![color_to_index(colors, item[1])].PLAYED_KNIGHT = item[2]]
  /\ UNCHANGED <<pc, boardVars, colors, advised_color, buildings, buildings_by_color,
                 board_buildable_ids, roads, robber_coordinate, current_player_index,
                 is_initial_build_phase, current_prompt, playable_actions, endVars>>

\* Lines 228-229: Color[color_str] or player_key raises KeyError.
ApplyKnightsRaise ==
  /\ pc = "knights"
  /\ OverridesRead < MaxOverrides
  /\ \E item \in KnightItems :
       /\ item[1] \notin Keys(data.players_knights)
       /\ item[1] \notin Range(colors)
       /\ data' = [data EXCEPT !.players_knights = Append(@, item)]
  /\ Raise("KeyError")
  /\ UNCHANGED <<boardVars, gameVars, decide_calls, recommended_action, response>>

\* Lines 232-242: the phase, the prompt, the rolled flag of the advised player
\* and the legal actions the enumerator returns.
Finish ==
  /\ pc = "knights"
  /\ is_initial_build_phase' = FALSE
  /\ current_prompt' = "PLAY_TURN"
  /\ player_state' =
       [player_state EXCEPT ![color_to_index(colors, advised_color)].HAS_ROLLED = TRUE]
  /\ playable_actions' \in ActionLists
  /\ pc' = "respond"
  /\ UNCHANGED <<data, boardVars, colors, advised_color, buildings, buildings_by_color,
                 board_buildable_ids, roads, robber_coordinate, current_player_index,
                 endVars>>

\* ------------------------------------------------------------------------
\* advisor_endpoint
\* ------------------------------------------------------------------------

\* calculate_victory_points(game)
calculate_victory_points(cs, ps) ==
  [c \in Range(cs) |-> ps[color_to_index(cs, c)].ACTUAL_VICTORY_POINTS]

\* An endpoint that asks the decision procedure before it answers an empty list.
RespondNoActionsAfterDecide ==
  /\ pc = "respond"
  /\ Len(playable_actions) = 0
  /\ decide_calls' = decide_calls + 1
  /\ response' =
       [status |-> 200, success |-> TRUE, action_type |-> "NO_ACTIONS",
        action_value |-> PyNone,
        explanation |-> "No legal actions available in this state.",
        victory_points |-> [c \in Range(colors) |->
                              player_state[color_to_index(colors, c)].ACTUAL_VICTORY_POINTS],
        all_actions |-> <<>>, error |-> ""]
  /\ pc' = "done"
  /\ UNCHANGED <<data, boardVars, gameVars, recommended_action, exc>>

\* Lines 280-292: no legal action.
RespondNoActions ==
  /\ pc = "respond"
  /\ Len(playable_actions) = 0
  /\ response' =
       [status |-> 200, success |-> TRUE, action_type |-> "NO_ACTIONS",
        action_value |-> PyNone,
        explanation |-> "No legal actions available in this state.",
        victory_points |-> calculate_victory_points(colors, player_state),
        all_actions |-> <<>>, error |-> ""]
  /\ pc' = "done"
  /\ UNCHANGED <<data, boardVars, gameVars, decide_calls, recommended_action, exc>>

\* Lines 299-314: the success response for the action the decision procedure returned.
SuccessResponse(action, cs, ps, actions) ==
  [status |-> 200, success |-> TRUE, action_type |-> action.action_type,
   action_value |-> action.value,
   explanation |-> generate_explanation(action),
   victory_points |-> calculate_victory_points(cs, ps),
   all_actions |-> [i \in 1..Len(actions) |-> format_action(actions[i])], error |-> ""]

\* Lines 294-314: the decision procedure returns an action.
DecideReturns ==
  /\ pc = "respond"
  /\ Len(playable_actions) # 0
  /\ decide_calls' = decide_calls + 1
  /\ \E action \in DecideUniverse :
       /\ recommended_action' = action
       /\ response' = SuccessResponse(action, colors, player_state, playable_actions)
  /\ pc' = "done"
  /\ UNCHANGED <<data, boardVars, gameVars, exc>>

\* Line 296: the decision procedure raises.
DecideRaises ==
  /\ pc = "respond"
  /\ Len(playable_actions) # 0
  /\ decide_calls' = decide_calls + 1
  /\ Raise("Exception")
  /\ UNCHANGED <<data, boardVars, gameVars, recommended_action, response>>

\* Lines 316-327: any exception ends the request in the failure response.
HandleException ==
  /\ pc = "except"
  /\ response' =
       [status |-> 500, success |-> FALSE, action_type |-> "", action_value |-> PyNone,
        explanation |-> "", victory_points |-> <<>>, all_actions |-> <<>>, error |-> exc]
  /\ pc' = "done"
  /\ UNCHANGED <<data, boardVars, gameVars, decide_calls, recommended_action, exc>>

\* ------------------------------------------------------------------------
\* The request as a state machine
\* ------------------------------------------------------------------------

Init ==
  /\ pc = "start"
  /\ data \in {Request(b.tiles, b.ports, n, a) :
                 b \in RequestBoards, n \in NumPlayersChoices, a \in ColorTokens}
  /\ NoBoard /\ NoGame /\ NoEnd

Next ==
  \/ Start \/ StartRaise
  \/ LandTilePass \/ PortPass \/ PortRaise \/ WaterPass
  \/ NewGame
  \/ ApplyBuilding \/ ApplyBuildingRaise \/ EndBuildings
  \/ ApplyRoad \/ ApplyRoadRaise
  \/ SetRobberAndCurrent \/ SetCurrentRaise
  \/ ApplyResource \/ EndResources
  \/ ApplyDevCard \/ EndDevCards
  \/ ApplyKnights \/ ApplyKnightsRaise
  \/ Finish
  \/ RespondNoActions \/ DecideReturns \/ DecideRaises
  \/ HandleException

Spec == Init /\ [][Next]_vars

\* ------------------------------------------------------------------------
\* generate_explanation called on its own with any action
\* ------------------------------------------------------------------------

\* Payloads of the engine's actions: none, an empty tuple, a vertex id, a
\* resource, an edge, a coordinate with a victim, resource tuples.
TuplePayloads ==
  { PyTuple(<<>>),
    PyTuple(<<PyInt(0), PyInt(1)>>),
    PyTuple(<<PyTuple(<<PyInt(0), PyInt(-1), PyInt(1)>>), PyStrg("BLUE"), PyNone>>),
    PyTuple(<<PyStrg("WOOD")>>),
    PyTuple(<<PyStrg("WOOD"), PyStrg("BRICK")>>),
    PyTuple(<<PyStrg("WOOD"), PyStrg("WOOD"), PyNone, PyNone, PyStrg("ORE")>>) }

Payloads == {PyNone, PyInt(0), PyInt(7), PyStrg("WOOD")} \cup TuplePayloads

\* The trade and robber kinds carry a tuple or nothing.
PayloadsOf(action_type) ==
  IF action_type \in {"MARITIME_TRADE", "MOVE_ROBBER"}
  THEN {PyNone} \cup TuplePayloads
  ELSE Payloads

ExplainActions == {Action(t, v) : t \in ActionTypes, v \in Payloads}

InitExplain ==
  /\ pc = "explain"
  /\ recommended_action \in {a \in ExplainActions : a.value \in PayloadsOf(a.action_type)}
  /\ data = Request(<<>>, <<>>, 2, "RED")
  /\ decide_calls = 0 /\ exc = "" /\ response = NoResponse
  /\ NoBoard /\ NoGame

Explain ==
  /\ pc = "explain"
  /\ response' = [response EXCEPT !.explanation = generate_explanation(recommended_action)]
  /\ pc' = "explained"
  /\ UNCHANGED <<data, boardVars, gameVars, decide_calls, recommended_action, exc>>

NextExplain == Explain

SpecExplain == InitExplain /\ [][NextExplain]_vars

\* ------------------------------------------------------------------------
\* Properties
\* ------------------------------------------------------------------------

\* The reconstruction ran to its end (line 234 sets the prompt).
Reconstructed == current_prompt = "PLAY_TURN"

\* The request has been answered with the success response.
Succeeded == pc = "done" /\ response.success

\* The action a success response reports is one of the legal actions.
ReportsMember ==
  \E i \in 1..Len(playable_actions) :
    /\ playable_actions[i].action_type = response.action_type
    /\ playable_actions[i].value = response.action_value

\* C1: whenever the legal-action list is non-empty, a success response reports
\* a member of that list; a decision procedure that raises or returns a
\* non-member ends the request in the failure response.
C1_SuccessReportsLegalAction ==
  (pc = "done" /\ Reconstructed /\ Len(playable_actions) # 0)
    => /\ response.success => ReportsMember
       /\ (exc # "" \/ recommended_action \notin Range(playable_actions))
            => ~response.success

\* The response lines 281-292 build, for the seats and counters of the game.
NoActionsResponse ==
  [status |-> 200, success |-> TRUE, action_type |-> "NO_ACTIONS", action_value |-> PyNone,
   explanation |-> "No legal actions available in this state.",
   victory_points |-> [c \in Range(colors) |->
                         player_state[color_to_index(colors, c)].ACTUAL_VICTORY_POINTS],
   all_actions |-> <<>>, error |-> ""]

\* C2: with an empty legal-action list the request ends in the NO_ACTIONS
\* success response (null value, the fixed explanation, the victory-point
\* snapshot, no actions listed) and the decision procedure is never invoked.
C2_EmptyListNoDecide ==
  (Reconstructed /\ Len(playable_actions) = 0)
    => /\ decide_calls = 0
       /\ pc # "except"
       /\ pc = "done" => response = NoActionsResponse

\* An answered request with no legal action, after a building gave a seat points.
C2_Witness ==
  /\ pc = "done" /\ Reconstructed /\ Len(playable_actions) = 0
  /\ response.success
  /\ \E c \in Range(colors) : response.victory_points[c] > 0

\* The game exists and no exception has interrupted its reconstruction.
GameBuilt == colors # <<>> /\ exc = ""

\* The vertices one edge away from vertex n in a tile map.
NeighborsIn(tiles, n) ==
  LET E == GraphEdges(tiles)
  IN  {e[2] : e \in {e \in E : e[1] = n}} \cup {e[1] : e \in {e \in E : e[2] = n}}

\* The vertices that carry a building, and those and their neighbours on the
\* board of the game.
BuiltVertices == DOMAIN buildings

BlockedVertices == BuiltVertices \cup UNION {NeighborsIn(BoardTiles, n) : n \in BuiltVertices}

\* C3: after any list of building overrides the buildable set is the initial
\* one (the land vertices of the board) minus exactly the vertices with a
\* building and their direct neighbours in the board of the game, custom or not.
C3_BuildableExcludesNeighbours ==
  GameBuilt => board_buildable_ids = land_nodes(BoardTiles) \ BlockedVertices

\* The number of buildings of a kind that a colour has on the board.
Placed(color, building_type) ==
  Cardinality({n \in DOMAIN buildings : buildings[n] = <<color, building_type>>})

NoDuplicateVertices ==
  \A i, j \in 1..Len(data.buildings) :
    i # j => data.buildings[i].node_id # data.buildings[j].node_id

Seat(color) == player_state[color_to_index(colors, color)]

\* C4: for a building list without duplicate vertices every seat's remaining
\* settlement (city) stock is the starting allotment minus the settlements
\* (cities) placed for it; a seat without buildings keeps its full stock.
C4_StockMatchesPlacements ==
  (GameBuilt /\ NoDuplicateVertices)
    => \A c \in Range(colors) :
         /\ Seat(c).SETTLEMENTS_AVAILABLE = SETTLEMENTS_START - Placed(c, "SETTLEMENT")
         /\ Seat(c).CITIES_AVAILABLE = CITIES_START - Placed(c, "CITY")

\* An answered request that placed a settlement and a city for RED, none for BLUE.
C4_Witness ==
  /\ Succeeded /\ NoDuplicateVertices
  /\ Placed("RED", "SETTLEMENT") = 1 /\ Placed("RED", "CITY") = 1
  /\ Placed("BLUE", "SETTLEMENT") = 0 /\ Placed("BLUE", "CITY") = 0
  /\ Seat("BLUE").SETTLEMENTS_AVAILABLE = SETTLEMENTS_START

\* The points the buildings on the board give a colour.
BuildingPoints(color) == Placed(color, "SETTLEMENT") + 2 * Placed(color, "CITY")

\* C5: after reconstruction both victory-point counters of every seat equal
\* 1 x settlements placed + 2 x cities placed for the seat, and the
\* victory-point snapshot of the response reports that value for every seat.
C5_PointsMatchBuildings ==
  /\ GameBuilt
       => \A c \in Range(colors) :
            /\ Seat(c).VICTORY_POINTS = BuildingPoints(c)
            /\ Seat(c).ACTUAL_VICTORY_POINTS = BuildingPoints(c)
  /\ Succeeded
       => response.victory_points = [c \in Range(colors) |-> BuildingPoints(c)]

\* ------------------------------------------------------------------------
\* Properties of the board builder
\* ------------------------------------------------------------------------

\* create_custom_board has returned a board.
BoardProduced == pc = "game" /\ catan_map # <<>>

\* The coordinates the descriptors name, tiles first.
DescriptorCoords ==
  [i \in 1..(Len(data.tiles) + Len(data.ports)) |->
     IF i <= Len(data.tiles) THEN data.tiles[i].coordinate
     ELSE data.ports[i - Len(data.tiles)].coordinate]

Distinct(s) == \A i, j \in 1..Len(s) : i # j => s[i] # s[j]

ZeroSum(c) == c[1] + c[2] + c[3] = 0

ValidDescriptors ==
  /\ Distinct(DescriptorCoords)
  /\ \A i \in 1..Len(DescriptorCoords) : ZeroSum(DescriptorCoords[i])

\* The place of a corner on the grid, whichever tile names it: three times
\* the corner is the sum of the three cells that meet there.
CornerCells ==
  [NORTH |-> <<"NORTHWEST", "NORTHEAST">>, NORTHEAST |-> <<"NORTHEAST", "EAST">>,
   SOUTHEAST |-> <<"EAST", "SOUTHEAST">>, SOUTH |-> <<"SOUTHEAST", "SOUTHWEST">>,
   SOUTHWEST |-> <<"SOUTHWEST", "WEST">>, NORTHWEST |-> <<"WEST", "NORTHWEST">>]

CornerPos(c, ref) ==
  add(add(c, add(c, c)),
      add(UNIT_VECTORS[CornerCells[ref][1]], UNIT_VECTORS[CornerCells[ref][2]]))

TilesWithVertex(tiles, v) ==
  {c \in DOMAIN tiles : \E r \in NodeRefNames : tiles[c].nodes[r] = v}

TilesWithEdge(tiles, a, b) ==
  {c \in DOMAIN tiles :
     \E e \in EdgeRefNames : tiles[c].edges[e] = <<a, b>> \/ tiles[c].edges[e] = <<b, a>>}

\* C6: in the board built from distinct zero-sum coordinates every vertex id
\* is referenced by 1 to 3 tiles, every edge by 1 or 2 tiles, and two tiles
\* name the same id for a corner exactly when it is the same corner of the grid.
C6_TopologyClosure ==
  (BoardProduced /\ ValidDescriptors)
    => LET tiles == catan_map[1]
       IN  /\ \A v \in GraphNodes(tiles) : Cardinality(TilesWithVertex(tiles, v)) \in 1..3
           /\ \A e \in GraphEdges(tiles) : Cardinality(TilesWithEdge(tiles, e[1], e[2])) \in 1..2
           /\ \A c1, c2 \in DOMAIN tiles : \A r1, r2 \in NodeRefNames :
                (CornerPos(c1, r1) = CornerPos(c2, r2))
                  <=> (tiles[c1].nodes[r1] = tiles[c2].nodes[r2])

\* A board from three land tiles and a port in which a vertex is shared by
\* three tiles and an edge by two.
C6_Witness ==
  /\ BoardProduced /\ ValidDescriptors
  /\ Len(data.tiles) = 3 /\ Len(data.ports) = 1
  /\ \E v \in GraphNodes(catan_map[1]) : Cardinality(TilesWithVertex(catan_map[1], v)) = 3
  /\ \E e \in GraphEdges(catan_map[1]) :
       Cardinality(TilesWithEdge(catan_map[1], e[1], e[2])) = 2

\* The descriptors that must be rejected.
UnknownResource(r) == r # None /\ r \notin DOMAIN RESOURCE_MAP

BadDescriptors ==
  \/ \E i \in 1..Len(data.tiles) : UnknownResource(data.tiles[i].resource)
  \/ \E i \in 1..Len(data.ports) : UnknownResource(data.ports[i].resource)
  \/ \E i \in 1..Len(data.ports) : data.ports[i].direction \notin DirectionNames
  \/ ~Distinct(DescriptorCoords)
  \/ \E i \in 1..Len(DescriptorCoords) : ~ZeroSum(DescriptorCoords[i])

\* C7: no board is produced from descriptors with an unknown resource, an
\* unknown direction, a repeated coordinate or a coordinate that does not sum
\* to zero.
C7_BadDescriptorsRejected == BadDescriptors => ~BoardProduced

\* The sequences that list the elements of s in another order.
Reorderings(s) ==
  {[i \in 1..Len(s) |-> s[q[i]]] :
     q \in {q \in [1..Len(s) -> 1..Len(s)] : \A i, j \in 1..Len(s) : i # j => q[i] # q[j]}}

TileCoords == [i \in 1..Len(data.tiles) |-> data.tiles[i].coordinate]

\* C9: land tiles of distinct coordinates listed in any other order, with the
\* same ports, give the same board: the same tile, ids and edges at every coordinate.
C9_OrderIndependent ==
  (BoardProduced /\ Distinct(TileCoords))
    => \A q \in Reorderings(data.tiles) : create_custom_board(q, data.ports) = catan_map[1]

\* A board from adjacent tiles that the caller did not list in sorted order.
C9_Witness ==
  /\ BoardProduced /\ Distinct(TileCoords)
  /\ Len(data.tiles) = 3
  /\ data.tiles # sorted(data.tiles)
  /\ \E v \in GraphNodes(catan_map[1]) : Cardinality(TilesWithVertex(catan_map[1], v)) = 3

\* ------------------------------------------------------------------------
\* Properties of the overrides and of the explanation
\* ------------------------------------------------------------------------

\* An override entry that must be rejected: an unknown colour, resource or
\* card token, a building on no vertex of the board, a road on no edge of it.
UnknownColor(items) == \E i \in 1..Len(items) : items[i].color \notin ColorNames

IsBoardEdge(e) == \E f \in GraphEdges(BoardTiles) : f = e \/ f = <<e[2], e[1]>>

BadOverride ==
  \/ UnknownColor(data.buildings)
  \/ UnknownColor(data.roads)
  \/ \E i \in 1..Len(data.players_knights) : data.players_knights[i][1] \notin ColorNames
  \/ \E i \in 1..Len(data.player_resources) :
       data.player_resources[i][1] \notin DOMAIN RESOURCE_MAP
  \/ \E i \in 1..Len(data.player_dev_cards) :
       data.player_dev_cards[i][1] \notin DOMAIN DEV_CARD_MAP
  \/ \E i \in 1..Len(data.buildings) : data.buildings[i].node_id \notin GraphNodes(BoardTiles)
  \/ \E i \in 1..Len(data.roads) : ~IsBoardEdge(data.roads[i].edge_id)

\* C8: a request with an unknown colour, resource or card token in an
\* override, a building node that is no vertex of the board or a road edge
\* that is no edge of the board fails: it returns no recommendation.
C8_BadOverridesRejected ==
  BadOverride => /\ ~Succeeded
                 /\ pc = "done" => response.status = 500

\* The kinds generate_explanation has a template for.
TemplatedTypes ==
  {"END_TURN", "BUILD_SETTLEMENT", "BUILD_CITY", "BUILD_ROAD", "BUY_DEVELOPMENT_CARD",
   "PLAY_KNIGHT_CARD", "MARITIME_TRADE", "MOVE_ROBBER", "PLAY_ROAD_BUILDING",
   "PLAY_YEAR_OF_PLENTY", "PLAY_MONOPOLY"}

Reversed(e) == <<e[2], e[1]>>

\* Every registered edge is registered in both directions for one owner.
RoadsSymmetric ==
  \A e \in DOMAIN roads : Reversed(e) \in DOMAIN roads /\ roads[Reversed(e)] = roads[e]

\* The number of distinct undirected edges a colour owns in the road map.
OwnedEdges(color) ==
  Cardinality({{e[1], e[2]} : e \in {e \in DOMAIN roads : roads[e] = color}})

\* C11: after any sequence of road overrides the road map is symmetric, and
\* every seat's remaining road stock is the starting allotment minus the
\* number of distinct undirected edges the seat owns in the road map, also when
\* an edge is listed twice, in either orientation or for different colours.
C11_RoadsSymmetricStockMatches ==
  GameBuilt
    => /\ RoadsSymmetric
       /\ \A c \in Range(colors) : Seat(c).ROADS_AVAILABLE = ROADS_START - OwnedEdges(c)

====
